---------------------------- MODULE Spec2Model ----------------------------
(***************************************************************************)
(* Model of the helideck solar collector / pool heat-loss application:     *)
(*   src/heat_loss_utils.py                 saturation_pressure,           *)
(*                                          compute_heat_losses            *)
(*   src/☀️_Main_page.py                     grid (array) savings map       *)
(*   src/pages/2_📍_Cost_saving_evaluation.py monthly ship location page    *)
(*   src/pages/3_♨️_Heat_loss_components.py  heat loss component maps       *)
(*                                                                         *)
(* Numbers.  The program computes in binary floating point.  The model     *)
(* computes the same expressions, operation by operation, over exact       *)
(* rationals: a number is a sign, a numerator and a denominator, the two   *)
(* magnitudes being little-endian sequences of base-10000 limbs (TLC's     *)
(* integers are 32 bits wide and T_pool_K**4 alone is about 8e9).  Rounding *)
(* error of the floating point operations is therefore not modelled.       *)
(***************************************************************************)
EXTENDS Integers, Sequences, FiniteSets, TLC

(***************************************************************************)
(* Magnitudes: natural numbers of any size, in limbs of base 10000.        *)
(***************************************************************************)
Base == 100 * 100

RECURSIVE MagTrim(_)
MagTrim(a) ==
    IF a = <<>> THEN <<>>
    ELSE IF a[Len(a)] = 0 THEN MagTrim(SubSeq(a, 1, Len(a) - 1))
    ELSE a

RECURSIVE MagOfNat(_)
MagOfNat(k) == IF k = 0 THEN <<>> ELSE <<k % Base>> \o MagOfNat(k \div Base)

RECURSIVE MagAddC(_, _, _)
MagAddC(a, b, c) ==
    IF a = <<>> /\ b = <<>> THEN (IF c = 0 THEN <<>> ELSE <<c>>)
    ELSE LET x == (IF a = <<>> THEN 0 ELSE a[1]) + (IF b = <<>> THEN 0 ELSE b[1]) + c
         IN  <<x % Base>> \o MagAddC(IF a = <<>> THEN <<>> ELSE Tail(a),
                                     IF b = <<>> THEN <<>> ELSE Tail(b),
                                     x \div Base)

MagAdd(a, b) == MagAddC(a, b, 0)

\* a - b - c for a >= b + c, untrimmed
RECURSIVE MagSubB(_, _, _)
MagSubB(a, b, c) ==
    IF a = <<>> THEN <<>>
    ELSE LET x == a[1] - (IF b = <<>> THEN 0 ELSE b[1]) - c
         IN  <<(x + Base) % Base>> \o MagSubB(Tail(a),
                                              IF b = <<>> THEN <<>> ELSE Tail(b),
                                              IF x < 0 THEN 1 ELSE 0)

MagSub(a, b) == MagTrim(MagSubB(a, b, 0))

\* -1, 0, 1 as a < b, a = b, a > b, comparing from limb i downwards
RECURSIVE MagCmpAt(_, _, _)
MagCmpAt(a, b, i) ==
    IF i = 0 THEN 0
    ELSE IF a[i] < b[i] THEN -1
    ELSE IF a[i] > b[i] THEN 1
    ELSE MagCmpAt(a, b, i - 1)

MagCmp(a, b) ==
    IF Len(a) < Len(b) THEN -1
    ELSE IF Len(a) > Len(b) THEN 1
    ELSE MagCmpAt(a, b, Len(a))

RECURSIVE MagMulSmallC(_, _, _)
MagMulSmallC(a, k, c) ==
    IF a = <<>> THEN (IF c = 0 THEN <<>> ELSE <<c>>)
    ELSE LET x == a[1] * k + c
         IN  <<x % Base>> \o MagMulSmallC(Tail(a), k, x \div Base)

RECURSIVE MagMul(_, _)
MagMul(a, b) ==
    IF a = <<>> \/ b = <<>> THEN <<>>
    ELSE IF Len(a) = 1 THEN MagMulSmallC(b, a[1], 0)
    ELSE MagAdd(MagMulSmallC(b, a[1], 0), <<0>> \o MagMul(Tail(a), b))

\* remainder of a by a small k (k * Base within 32 bits), from limb i downwards
RECURSIVE MagModAt(_, _, _, _)
MagModAt(a, k, i, r) ==
    IF i = 0 THEN r ELSE MagModAt(a, k, i - 1, (r * Base + a[i]) % k)

MagModSmall(a, k) == MagModAt(a, k, Len(a), 0)

\* quotient of a by a small k, from limb i downwards, most significant limb last
RECURSIVE MagDivAt(_, _, _, _)
MagDivAt(a, k, i, r) ==
    IF i = 0 THEN <<>>
    ELSE LET x == r * Base + a[i]
         IN  MagDivAt(a, k, i - 1, x % k) \o <<x \div k>>

MagDivSmall(a, k) == MagTrim(MagDivAt(a, k, Len(a), 0))

(***************************************************************************)
(* Rationals: [sg |-> -1 | 0 | 1, num |-> magnitude, den |-> magnitude],   *)
(* in lowest terms.  Every denominator of the program is a product of the  *)
(* primes of its decimal constants and of 3600 * 133.322 = 2399796 / 5 =   *)
(* 2^2 * 3^2 * 7 * 89 * 107 / 5, so cancelling those primes is cancelling  *)
(* the greatest common divisor.                                            *)
(***************************************************************************)
DenPrimes == <<2, 3, 5, 7, 89, 107>>

RECURSIVE Cancel(_, _, _)
Cancel(n, d, i) ==
    IF i > Len(DenPrimes) THEN <<n, d>>
    ELSE IF MagModSmall(d, DenPrimes[i]) = 0 /\ MagModSmall(n, DenPrimes[i]) = 0
         THEN Cancel(MagDivSmall(n, DenPrimes[i]), MagDivSmall(d, DenPrimes[i]), i)
    ELSE Cancel(n, d, i + 1)

RatOf(s, c) == [sg |-> s, num |-> c[1], den |-> c[2]]

Rat(s, n, d) ==
    IF n = <<>> \/ s = 0 THEN [sg |-> 0, num |-> <<>>, den |-> <<1>>]
    ELSE RatOf(s, Cancel(n, d, 1))

Sgn(i) == IF i < 0 THEN -1 ELSE IF i > 0 THEN 1 ELSE 0
Abs(i) == IF i < 0 THEN -i ELSE i

\* the decimal literal n / d, d > 0: Q(306, 10) is 30.6
Q(n, d) == Rat(Sgn(n), MagOfNat(Abs(n)), MagOfNat(d))
Z(n) == Q(n, 1)

RNeg(a) == [a EXCEPT !.sg = -a.sg]

RMul(a, b) == Rat(a.sg * b.sg, MagMul(a.num, b.num), MagMul(a.den, b.den))

\* b is never zero in the program: every divisor is a constant or a table step
RDiv(a, b) == Rat(a.sg * b.sg, MagMul(a.num, b.den), MagMul(a.den, b.num))

\* the signed sum sa * x + sb * y of two magnitudes, as <<sign, magnitude>>;
\* c is MagCmp(x, y)
SignedDiff(c, sa, x, sb, y) ==
    IF c = 0 THEN <<0, <<>>>>
    ELSE IF c > 0 THEN <<sa, MagSub(x, y)>>
    ELSE <<sb, MagSub(y, x)>>

SignedSum(sa, x, sb, y) ==
    IF sa = sb THEN <<sa, MagAdd(x, y)>> ELSE SignedDiff(MagCmp(x, y), sa, x, sb, y)

RatOver(sm, d) == Rat(sm[1], sm[2], d)

RAdd(a, b) ==
    IF a.sg = 0 THEN b
    ELSE IF b.sg = 0 THEN a
    ELSE RatOver(SignedSum(a.sg, MagMul(a.num, b.den), b.sg, MagMul(b.num, a.den)),
                 MagMul(a.den, b.den))

RSub(a, b) == RAdd(a, RNeg(b))

\* -1, 0, 1 as a < b, a = b, a > b
RCmp(a, b) ==
    IF a.sg # b.sg THEN (IF a.sg < b.sg THEN -1 ELSE 1)
    ELSE IF a.sg = 0 THEN 0
    ELSE a.sg * MagCmp(MagMul(a.num, b.den), MagMul(b.num, a.den))

REq(a, b) == RCmp(a, b) = 0
RLt(a, b) == RCmp(a, b) < 0
RLe(a, b) == RCmp(a, b) <= 0

RECURSIVE RPow(_, _)
RPow(a, k) == IF k = 0 THEN Z(1) ELSE RMul(a, RPow(a, k - 1))

(***************************************************************************)
(* Values: a scalar (a rational) or a numpy array, [arr |-> <<r1, ...>>],  *)
(* with numpy's elementwise arithmetic and scalar broadcasting.            *)
(***************************************************************************)
IsArr(v) == "arr" \in DOMAIN v
Arr(s) == [arr |-> s]
\* every element of an operation taken from the first point of an array
At_first(v, i) == IF IsArr(v) THEN v.arr[1] ELSE v
At(v, i) == IF IsArr(v) THEN v.arr[i] ELSE v

\* the number of elements an operation runs over (a scalar counts as one), and
\* the result in the shape of the operands: an array if any operand is one
Size(a) == IF IsArr(a) THEN Len(a.arr) ELSE 1
Size2(a, b) == IF IsArr(a) THEN Len(a.arr) ELSE Size(b)
Shaped(a, s) == IF IsArr(a) THEN Arr(s) ELSE s[1]
Shaped2(a, b, s) == IF IsArr(a) \/ IsArr(b) THEN Arr(s) ELSE s[1]

RECURSIVE AddAt(_, _, _)
AddAt(a, b, n) ==
    IF n = 0 THEN <<>> ELSE Append(AddAt(a, b, n - 1), RAdd(At(a, n), At(b, n)))

RECURSIVE SubAt(_, _, _)
SubAt(a, b, n) ==
    IF n = 0 THEN <<>> ELSE Append(SubAt(a, b, n - 1), RSub(At(a, n), At(b, n)))

RECURSIVE MulAt(_, _, _)
MulAt(a, b, n) ==
    IF n = 0 THEN <<>> ELSE Append(MulAt(a, b, n - 1), RMul(At(a, n), At(b, n)))

RECURSIVE DivAt(_, _, _)
DivAt(a, b, n) ==
    IF n = 0 THEN <<>> ELSE Append(DivAt(a, b, n - 1), RDiv(At(a, n), At(b, n)))

RECURSIVE Pow4At(_, _)
Pow4At(a, n) ==
    IF n = 0 THEN <<>> ELSE Append(Pow4At(a, n - 1), RPow(At(a, n), 4))

Add(a, b) == Shaped2(a, b, AddAt(a, b, Size2(a, b)))
Sub(a, b) == Shaped2(a, b, SubAt(a, b, Size2(a, b)))
Mul(a, b) == Shaped2(a, b, MulAt(a, b, Size2(a, b)))
Div(a, b) == Shaped2(a, b, DivAt(a, b, Size2(a, b)))
Pow4(a) == Shaped(a, Pow4At(a, Size(a)))

(***************************************************************************)
(* heat_loss_utils.py: the saturation pressure table and its interpolant.  *)
(***************************************************************************)
temps_c ==
    <<-40, -30, -25, -20, -15, -10, -5, 0, 5, 10, 15, 20,
      25, 30, 35, 40, 45, 50, 55, 60, 65, 70, 75, 80, 85>>

\* the table's pressures in hundredths of a pascal (12.84, 38, 63.25, ...)
sat_press_pa ==
    <<1284, 3800, 6325, 10320, 16520, 25920, 40150, 61080, 87190, 122700, 170400,
      233700, 316700, 424300, 562300, 737800, 958500, 1233900, 1474500, 1992500,
      2501400, 3116700, 3855400, 4736500, 5780900>>

TableX(i) == Z(temps_c[i])
TableY(i) == Q(sat_press_pa[i], 100)

\* numpy.searchsorted(x, v), side "left": how many table temperatures are below v
searchsorted(v) == Cardinality({i \in 1..Len(temps_c) : RLt(TableX(i), v)})

clip(i, lo, hi) == IF i < lo THEN lo ELSE IF i > hi THEN hi ELSE i

\* interp1d(..., bounds_error=False, fill_value="extrapolate") on one number:
\* the segment is the one found by searchsorted, clipped to the first and the
\* last segment, and nothing is filled in or raised outside the table
\* slope = (y_hi - y_lo) / (x_hi - x_lo);  y_new = slope * (x_new - x_lo) + y_lo
interp_line(x_new, x_lo, y_lo, x_hi, y_hi) ==
    RAdd(RMul(RDiv(RSub(y_hi, y_lo), RSub(x_hi, x_lo)), RSub(x_new, x_lo)), y_lo)

\* lo = x_new_indices - 1 and hi = x_new_indices, as 1-based table positions
interp_segment(x_new, x_new_indices) ==
    interp_line(x_new, TableX(x_new_indices), TableY(x_new_indices),
                TableX(x_new_indices + 1), TableY(x_new_indices + 1))

\* a lookup that holds the boundary value outside the table, as numpy.interp does
sat_pressure_fn_clamped(x_new) ==
    IF RLt(x_new, TableX(1)) THEN TableY(1)
    ELSE IF RLt(TableX(Len(temps_c)), x_new) THEN TableY(Len(temps_c))
    ELSE interp_segment(x_new, clip(searchsorted(x_new), 1, Len(temps_c) - 1))

sat_pressure_fn(x_new) ==
    interp_segment(x_new, clip(searchsorted(x_new), 1, Len(temps_c) - 1))

RECURSIVE sat_pressure_at(_, _)
sat_pressure_at(temp_c, n) ==
    IF n = 0 THEN <<>>
    ELSE Append(sat_pressure_at(temp_c, n - 1), sat_pressure_fn(At(temp_c, n)))

saturation_pressure(temp_c) == Shaped(temp_c, sat_pressure_at(temp_c, Size(temp_c)))

(***************************************************************************)
(* heat_loss_utils.py: compute_heat_losses.  Each flux of the function is  *)
(* an operator of its own, and the function passes them on to the sums and *)
(* products that make up the returned dict.                                *)
(***************************************************************************)
evap_fact == Q(5, 10)                            \* evaporation tuning factor
epsilon == Q(9, 10)                              \* emissivity
sigma == RDiv(Q(567, 100), Z(100000000))         \* 5.67e-8 W/m^2/K^4
Kelvin == Q(27315, 100)                          \* + 273.15

\* Pw_day, Pa_day, q_evap_day (kW/m^2)
q_evap_day(pool_temp, T_day, wind_day, rh_day) ==
    Div(Mul(evap_fact,
            Mul(Add(Q(306, 10), Mul(Q(321, 10), wind_day)),
                Sub(saturation_pressure(pool_temp),
                    Div(Mul(saturation_pressure(T_day), rh_day), Z(100))))),
        Mul(Z(3600), Q(133322, 1000)))

\* Pw_night, Pa_night, q_evap_night before the cover
q_evap_night(pool_temp, T_night, wind_night, rh_night) ==
    Div(Mul(evap_fact,
            Mul(Add(Q(306, 10), Mul(Q(321, 10), wind_night)),
                Sub(saturation_pressure(pool_temp),
                    Div(Mul(saturation_pressure(T_night), rh_night), Z(100))))),
        Mul(Z(3600), Q(133322, 1000)))

\* T_sky_day = T_day - 5, both temperatures in kelvin, q_rad_day (kW/m^2)
q_rad_day(pool_temp, T_day) ==
    Div(Mul(Mul(epsilon, sigma),
            Sub(Pow4(Add(pool_temp, Kelvin)), Pow4(Add(Sub(T_day, Z(5)), Kelvin)))),
        Z(1000))

\* the night radiation against the air instead of the sky (T_sky_night = T_night)
q_rad_night_air(pool_temp, T_night) ==
    Div(Mul(Mul(epsilon, sigma),
            Sub(Pow4(Add(pool_temp, Kelvin)), Pow4(Add(T_night, Kelvin)))),
        Z(1000))

\* T_sky_night = T_night - 5, q_rad_night before the cover
q_rad_night(pool_temp, T_night) ==
    Div(Mul(Mul(epsilon, sigma),
            Sub(Pow4(Add(pool_temp, Kelvin)), Pow4(Add(Sub(T_night, Z(5)), Kelvin)))),
        Z(1000))

\* the day convection against the sky temperature instead of the air
q_conv_day_sky(pool_temp, T_day, wind_day) ==
    Mul(Div(Add(Q(31, 10), Mul(Q(41, 10), wind_day)), Z(1000)),
        Sub(pool_temp, Sub(T_day, Z(5))))

\* h_conv_day, q_conv_day (kW/m^2)
q_conv_day(pool_temp, T_day, wind_day) ==
    Mul(Div(Add(Q(31, 10), Mul(Q(41, 10), wind_day)), Z(1000)), Sub(pool_temp, T_day))

\* h_conv_night, q_conv_night
q_conv_night(pool_temp, T_night, wind_night) ==
    Mul(Div(Add(Q(31, 10), Mul(Q(41, 10), wind_night)), Z(1000)), Sub(pool_temp, T_night))

\* a cover that is never applied
night_cover_ignored(cover_used, q) == q

\* if cover_used: q *= 0.3   (applied to q_evap_night and to q_rad_night)
night_cover(cover_used, q) == IF cover_used THEN Mul(q, Q(3, 10)) ELSE q

\* the night total taken over the day's hours
heat_loss_result_day_hours(q_evap_d, q_evap_n, q_rad_d, q_rad_n, q_conv_d, q_conv_n, pool_area, pool_depth, hours_day, night_hours) ==
    [Q_day |-> Mul(Mul(Add(Add(q_evap_d, q_rad_d), q_conv_d), pool_area), hours_day),
     Q_night |-> Mul(Mul(Add(Add(q_evap_n, q_rad_n), q_conv_n), pool_area), hours_day),
     evap_day |-> Mul(Mul(q_evap_d, pool_area), hours_day),
     evap_night |-> Mul(Mul(q_evap_n, pool_area), night_hours),
     rad_day |-> Mul(Mul(q_rad_d, pool_area), hours_day),
     rad_night |-> Mul(Mul(q_rad_n, pool_area), night_hours),
     conv_day |-> Mul(Mul(q_conv_d, pool_area), hours_day),
     conv_night |-> Mul(Mul(q_conv_n, pool_area), night_hours),
     seconds_per_hour |-> Z(3600),
     hours_day |-> hours_day,
     pool_volume |-> Mul(pool_area, pool_depth)]

\* the totals per m^2, the energies (kWh/day) and the returned dict
heat_loss_result(q_evap_d, q_evap_n, q_rad_d, q_rad_n, q_conv_d, q_conv_n, pool_area, pool_depth, hours_day, night_hours) ==
    [Q_day |-> Mul(Mul(Add(Add(q_evap_d, q_rad_d), q_conv_d), pool_area), hours_day),
     Q_night |-> Mul(Mul(Add(Add(q_evap_n, q_rad_n), q_conv_n), pool_area), night_hours),
     evap_day |-> Mul(Mul(q_evap_d, pool_area), hours_day),
     evap_night |-> Mul(Mul(q_evap_n, pool_area), night_hours),
     rad_day |-> Mul(Mul(q_rad_d, pool_area), hours_day),
     rad_night |-> Mul(Mul(q_rad_n, pool_area), night_hours),
     conv_day |-> Mul(Mul(q_conv_d, pool_area), hours_day),
     conv_night |-> Mul(Mul(q_conv_n, pool_area), night_hours),
     seconds_per_hour |-> Z(3600),
     hours_day |-> hours_day,
     pool_volume |-> Mul(pool_area, pool_depth)]

\* a cover that also holds back the night convection
compute_heat_losses_cover_conv(pool_temp, pool_area, pool_depth, T_day, T_night, wind_day, wind_night, rh_day, rh_night, night_hours, cover_used) ==
    heat_loss_result(
        q_evap_day(pool_temp, T_day, wind_day, rh_day),
        night_cover(cover_used, q_evap_night(pool_temp, T_night, wind_night, rh_night)),
        q_rad_day(pool_temp, T_day),
        night_cover(cover_used, q_rad_night(pool_temp, T_night)),
        q_conv_day(pool_temp, T_day, wind_day),
        night_cover(cover_used, q_conv_night(pool_temp, T_night, wind_night)),
        pool_area, pool_depth, Sub(Z(24), night_hours), night_hours)

compute_heat_losses(pool_temp, pool_area, pool_depth, T_day, T_night, wind_day, wind_night, rh_day, rh_night, night_hours, cover_used) ==
    heat_loss_result(
        q_evap_day(pool_temp, T_day, wind_day, rh_day),
        night_cover(cover_used, q_evap_night(pool_temp, T_night, wind_night, rh_night)),
        q_rad_day(pool_temp, T_day),
        night_cover(cover_used, q_rad_night(pool_temp, T_night)),
        q_conv_day(pool_temp, T_day, wind_day),
        q_conv_night(pool_temp, T_night, wind_night),
        pool_area, pool_depth, Sub(Z(24), night_hours), night_hours)

(***************************************************************************)
(* Rounding and the Python builtins the pages use.                         *)
(***************************************************************************)
\* the largest q in lo..hi with q * den <= num (lo qualifies)
RECURSIVE FloorSearch(_, _, _, _)
FloorSearch(num, den, lo, hi) ==
    IF lo = hi THEN lo
    ELSE LET mid == lo + (hi - lo + 1) \div 2
         IN  IF MagCmp(MagMul(den, MagOfNat(mid)), num) <= 0
                 THEN FloorSearch(num, den, mid, hi)
             ELSE FloorSearch(num, den, lo, mid - 1)

\* an upper limit of num / den: doubled until it is above the quotient
RECURSIVE FloorLimit(_, _, _)
FloorLimit(num, den, hi) ==
    IF MagCmp(MagMul(den, MagOfNat(hi)), num) > 0 THEN hi
    ELSE FloorLimit(num, den, 2 * hi)

MagFloorDiv(num, den) == FloorSearch(num, den, 0, FloorLimit(num, den, 1))

\* round(x, ndigits): to the nearest multiple of 10^-ndigits, a tie to the even one
\* twice: the doubled remainder of |y| - q against 1, as -1, 0 or 1
RoundTie(sg, q, twice, scale) ==
    Q(sg * (IF twice > 0 \/ (twice = 0 /\ q % 2 = 1) THEN q + 1 ELSE q), scale)

RoundFloor(y, q, scale) ==
    RoundTie(y.sg, q,
             MagCmp(MagMul(MagSub(y.num, MagMul(y.den, MagOfNat(q))), <<2>>), y.den),
             scale)

RoundScaled(y, scale) == RoundFloor(y, MagFloorDiv(y.num, y.den), scale)

round(x, ndigits) ==
    IF ndigits = 1 THEN RoundScaled(RMul(x, Z(10)), 10)
    ELSE RoundScaled(RMul(x, Z(100)), 100)

\* no clamp: the first argument as it is
max_unclamped(a, b) == a

\* max(a, b) and min(a, b) of Python: the first argument unless the second is
\* strictly larger (smaller)
max(a, b) == IF RLt(a, b) THEN b ELSE a
min(a, b) == IF RLt(b, a) THEN b ELSE a

\* numpy.clip(a, a_min, None) and numpy.minimum(a, b), elementwise
RECURSIVE clip_min_at(_, _, _)
clip_min_at(a, a_min, n) ==
    IF n = 0 THEN <<>>
    ELSE Append(clip_min_at(a, a_min, n - 1),
                IF RLt(At(a, n), a_min) THEN a_min ELSE At(a, n))

np_clip_min(a, a_min) == Shaped(a, clip_min_at(a, a_min, Size(a)))

RECURSIVE minimum_at(_, _, _)
minimum_at(a, b, n) ==
    IF n = 0 THEN <<>>
    ELSE Append(minimum_at(a, b, n - 1),
                IF RLt(At(b, n), At(a, n)) THEN At(b, n) ELSE At(a, n))

np_minimum(a, b) == Shaped2(a, b, minimum_at(a, b, Size2(a, b)))

(***************************************************************************)
(* The climate dataset (climate_data_sea.csv, read by load_data): one row  *)
(* per sea point, one column per parameter and month.  The file is not     *)
(* part of the sources; the model reads a dataset of three points, values  *)
(* in tenths, with or without the optional tavg_<Month> columns.           *)
(***************************************************************************)
months_ordered ==
    <<"January", "February", "March", "April", "May", "June",
      "July", "August", "September", "October", "November", "December">>

Months == {months_ordered[i] : i \in 1..Len(months_ordered)}

MonthIndex(month) == CHOOSE i \in 1..Len(months_ordered) : months_ordered[i] = month

\* m[:3].lower()
short_of ==
    [January |-> "jan", February |-> "feb", March |-> "mar", April |-> "apr",
     May |-> "may", June |-> "jun", July |-> "jul", August |-> "aug",
     September |-> "sep", October |-> "oct", November |-> "nov", December |-> "dec"]

short_months == {short_of[m] : m \in Months}

DataRows ==
    << [lat |-> 125, lon |-> 450,
        tmin |-> <<240, 242, 248, 255, 262, 266, 268, 270, 264, 256, 249, 243>>,
        tmax |-> <<300, 304, 311, 318, 326, 331, 336, 334, 327, 318, 309, 302>>,
        tavg |-> <<268, 271, 277, 285, 292, 297, 300, 301, 294, 285, 277, 271>>,
        ghi  |-> <<52, 58, 63, 66, 68, 67, 65, 64, 61, 57, 53, 50>>,
        ws10m |-> <<52, 55, 49, 43, 58, 71, 76, 72, 59, 44, 47, 50>>,
        rh   |-> <<780, 790, 810, 840, 880, 920, 940, 930, 900, 850, 810, 790>>],
       [lat |-> 580, lon |-> 35,
        tmin |-> <<10, 8, 21, 43, 76, 104, 127, 129, 108, 77, 44, 22>>,
        tmax |-> <<52, 55, 74, 103, 141, 168, 189, 190, 162, 121, 84, 61>>,
        tavg |-> <<33, 32, 47, 71, 106, 135, 157, 160, 136, 101, 66, 43>>,
        ghi  |-> <<5, 12, 25, 41, 54, 58, 55, 44, 29, 15, 7, 4>>,
        ws10m |-> <<98, 94, 88, 76, 69, 66, 64, 67, 78, 88, 93, 97>>,
        rh   |-> <<860, 850, 830, 800, 780, 790, 800, 810, 820, 840, 850, 860>>],
       [lat |-> -680, lon |-> -300,
        tmin |-> <<-31, -52, -88, -121, -143, -158, -171, -175, -160, -124, -78, -42>>,
        tmax |-> <<12, -8, -41, -70, -88, -99, -108, -112, -101, -73, -32, 3>>,
        tavg |-> <<-8, -29, -63, -94, -114, -127, -138, -142, -129, -97, -54, -18>>,
        ghi  |-> <<61, 40, 19, 6, 1, 0, 0, 3, 14, 34, 55, 66>>,
        ws10m |-> <<71, 78, 86, 93, 97, 99, 101, 100, 95, 88, 79, 72>>,
        rh   |-> <<820, 810, 800, 790, 780, 780, 770, 770, 780, 790, 810, 820>>] >>

\* the datasets a run can be given: with and without the tavg columns
Datasets == {[has_tavg |-> h] : h \in BOOLEAN}

HasColumn(data, param) == param # "tavg" \/ data.has_tavg

\* the number in row i, column <param>_<month>
Cell(i, param, month) == Q(DataRows[i][param][MonthIndex(month)], 10)
Lat(i) == Q(DataRows[i].lat, 10)
Lon(i) == Q(DataRows[i].lon, 10)

\* df[f"<param>_{month}"]: a pandas Series over the rows
Column(data, param, month) ==
    [kind |-> "Series", arr |-> [i \in 1..Len(DataRows) |-> Cell(i, param, month)]]

\* Series.values: the numpy array of a Series; a numpy array has no such
\* attribute, and asking it for one raises AttributeError
HasValues(v) == "kind" \in DOMAIN v /\ v.kind = "Series"
Values(v) == Arr(v.arr)

\* DataFrame.get(key, default): the column when there is one, else the default
DataFrame_get(data, param, month, default) ==
    IF HasColumn(data, param) THEN Column(data, param, month) ELSE default

\* row.get(key, default) on one row (a Series indexed by column name)
row_get(data, i, param, month, default) ==
    IF HasColumn(data, param) THEN Cell(i, param, month) ELSE default


(***************************************************************************)
(* The sidebar of the pages: what the sliders, the checkbox and the select *)
(* box hold.  pool_depth and night_hours are fixed by each page.           *)
(***************************************************************************)
pool_depth == Q(15, 10)
night_hours == 12

shielding_factor ==
    [open |-> Q(7, 10), partly |-> Q(4, 10), recessed |-> Q(15, 100), highly |-> Q(5, 100)]

\* the settings of a fresh session (each widget's default) and a changed one
SidebarDefault ==
    [cop |-> Z(3), usd_per_liter |-> Q(12, 10), helideck_area |-> Z(75),
     collector_efficiency |-> RDiv(Z(70), Z(100)), pool_temp |-> Z(28),
     pool_area |-> Z(50), cover_used |-> TRUE, shielding |-> "open"]

SidebarOther ==
    [cop |-> Q(45, 10), usd_per_liter |-> Q(9, 10), helideck_area |-> Z(140),
     collector_efficiency |-> RDiv(Z(55), Z(100)), pool_temp |-> Z(22),
     pool_area |-> Z(100), cover_used |-> FALSE, shielding |-> "recessed"]

Sidebars == {SidebarDefault, SidebarOther}

\* the sidebars of the runs of the pages: the select box at each of its four
\* options
SidebarPartly == [SidebarDefault EXCEPT !.shielding = "partly"]
SidebarHighly == [SidebarOther EXCEPT !.shielding = "highly"]
PageSidebars == Sidebars \cup {SidebarPartly, SidebarHighly}

(***************************************************************************)
(* ☀️_Main_page.py: one run of the script for a month, over the whole grid. *)
(***************************************************************************)
\* mask = (lat < -65) | ((lat > 60) & lon.between(-60, -20));  ghi columns *= 0.5
polar_mask(i) ==
    \/ RLt(Lat(i), Z(-65))
    \/ (RLt(Z(60), Lat(i)) /\ RLe(Z(-60), Lon(i)) /\ RLe(Lon(i), Z(-20)))

masked_ghi(month) ==
    Arr([i \in 1..Len(DataRows) |->
            IF polar_mask(i) THEN RMul(Cell(i, "ghi", month), Q(5, 10))
            ELSE Cell(i, "ghi", month)])

\* lines 96-103: the total loss, the gains and the savings, elementwise over the grid
main_savings(sb, derived, ghi, loss) ==
    LET total_loss == Add(loss.Q_day, loss.Q_night)
        helideck_gain == Mul(Mul(ghi, sb.helideck_area), sb.collector_efficiency)
        pool_solar_gain == Mul(Mul(ghi, sb.pool_area), Q(7, 10))
        net_pool_heating == np_clip_min(Sub(total_loss, pool_solar_gain), Z(0))
        net_saving == np_minimum(helideck_gain, net_pool_heating)
    IN  [status |-> "ok", T_avg |-> derived.T_avg,
         T_day |-> derived.T_day, T_night |-> derived.T_night,
         wind_day |-> derived.wind_day, wind_night |-> derived.wind_night,
         rh_day |-> derived.rh_day, rh_night |-> derived.rh_night, ghi |-> ghi,
         loss |-> loss, total_loss |-> total_loss,
         helideck_gain |-> helideck_gain, pool_solar_gain |-> pool_solar_gain,
         net_pool_heating |-> net_pool_heating, net_saving |-> net_saving]

\* the day and night conditions with the night humidity capped at 100
main_derive_capped(data, sb, month, tmin, tmax, tavg) ==
    LET T_day == Div(Add(tavg, tmax), Z(2))
        T_night == Div(Add(tavg, tmin), Z(2))
        wind == Values(Column(data, "ws10m", month))
        wind_day == Mul(wind, shielding_factor[sb.shielding])
        wind_night == Mul(Mul(Q(8, 10), wind), shielding_factor[sb.shielding])
        rh == Values(Column(data, "rh", month))
        rh_day == rh
        rh_night == np_minimum(Mul(Q(11, 10), rh), Z(100))
    IN  main_savings(sb,
            [T_avg |-> tavg, T_day |-> T_day, T_night |-> T_night,
             wind_day |-> wind_day, wind_night |-> wind_night,
             rh_day |-> rh_day, rh_night |-> rh_night],
            masked_ghi(month),
            compute_heat_losses(sb.pool_temp, sb.pool_area, pool_depth,
                                T_day, T_night, wind_day, wind_night,
                                rh_day, rh_night, Z(night_hours), sb.cover_used))

\* lines 83-95: the day and night conditions and the call of compute_heat_losses
main_derive(data, sb, month, tmin, tmax, tavg) ==
    LET T_day == Div(Add(tavg, tmax), Z(2))
        T_night == Div(Add(tavg, tmin), Z(2))
        wind == Values(Column(data, "ws10m", month))
        wind_day == Mul(wind, shielding_factor[sb.shielding])
        wind_night == Mul(Mul(Q(8, 10), wind), shielding_factor[sb.shielding])
        rh == Values(Column(data, "rh", month))
        rh_day == rh
        rh_night == Mul(Q(11, 10), rh)
    IN  main_savings(sb,
            [T_avg |-> tavg, T_day |-> T_day, T_night |-> T_night,
             wind_day |-> wind_day, wind_night |-> wind_night,
             rh_day |-> rh_day, rh_night |-> rh_night],
            masked_ghi(month),
            compute_heat_losses(sb.pool_temp, sb.pool_area, pool_depth,
                                T_day, T_night, wind_day, wind_night,
                                rh_day, rh_night, Z(night_hours), sb.cover_used))

\* lines 79-81: tavg = df.get(f"tavg_{month}", (tmin + tmax) / 2).values
main_page(data, sb, month) ==
    LET tmin == Values(Column(data, "tmin", month))
        tmax == Values(Column(data, "tmax", month))
        got == DataFrame_get(data, "tavg", month, Div(Add(tmin, tmax), Z(2)))
    IN  IF ~HasValues(got) THEN [status |-> "AttributeError"]
        ELSE main_derive(data, sb, month, tmin, tmax, Values(got))

(***************************************************************************)
(* pages/3_♨️_Heat_loss_components.py: one run of the script for a month.   *)
(***************************************************************************)
\* lines 82-85: the component sums the maps show
components_sums(derived, loss) ==
    [status |-> "ok", T_avg |-> derived.T_avg,
     T_day |-> derived.T_day, T_night |-> derived.T_night,
     wind_day |-> derived.wind_day, wind_night |-> derived.wind_night,
     rh_day |-> derived.rh_day, rh_night |-> derived.rh_night, loss |-> loss,
     rad_loss |-> Add(loss.rad_day, loss.rad_night),
     evap_loss |-> Add(loss.evap_day, loss.evap_night),
     conv_loss |-> Add(loss.conv_day, loss.conv_night),
     total_loss |-> Add(loss.Q_day, loss.Q_night)]

\* lines 67-80: the day and night conditions and the call of compute_heat_losses
components_derive(data, sb, month, tmin, tmax, tavg) ==
    LET T_day == Div(Add(tavg, tmax), Z(2))
        T_night == Div(Add(tavg, tmin), Z(2))
        wind == Values(Column(data, "ws10m", month))
        wind_day == Mul(wind, shielding_factor[sb.shielding])
        wind_night == Mul(Mul(Q(8, 10), wind), shielding_factor[sb.shielding])
        rh == Values(Column(data, "rh", month))
        rh_day == rh
        rh_night == Mul(Q(11, 10), rh)
    IN  components_sums(
            [T_avg |-> tavg, T_day |-> T_day, T_night |-> T_night,
             wind_day |-> wind_day, wind_night |-> wind_night,
             rh_day |-> rh_day, rh_night |-> rh_night],
            compute_heat_losses(sb.pool_temp, sb.pool_area, pool_depth,
                                T_day, T_night, wind_day, wind_night,
                                rh_day, rh_night, Z(night_hours), sb.cover_used))

\* lines 64-66: tavg = df.get(f"tavg_{month}", (tmin + tmax) / 2).values
components_page(data, sb, month) ==
    LET tmin == Values(Column(data, "tmin", month))
        tmax == Values(Column(data, "tmax", month))
        got == DataFrame_get(data, "tavg", month, Div(Add(tmin, tmax), Z(2)))
    IN  IF ~HasValues(got) THEN [status |-> "AttributeError"]
        ELSE components_derive(data, sb, month, tmin, tmax, Values(got))

(***************************************************************************)
(* pages/2_📍_Cost_saving_evaluation.py: the body of the loop over the      *)
(* months, for the location assigned to the month.                         *)
(***************************************************************************)
days_in_month ==
    [January |-> 31, February |-> 28, March |-> 31, April |-> 30, May |-> 31,
     June |-> 30, July |-> 31, August |-> 31, September |-> 30, October |-> 31,
     November |-> 30, December |-> 31]

\* (df["lat"] - lat_sel)**2 + (df["lon"] - lon_sel)**2, the square of df["dist"]
dist2(i, latlng) ==
    RAdd(RPow(RSub(Lat(i), latlng[1]), 2), RPow(RSub(Lon(i), latlng[2]), 2))

\* df["dist"].idxmin(): the first row at the least distance (the square root
\* keeps the order, so the squares are compared)
idxmin(latlng) ==
    CHOOSE i \in 1..Len(DataRows) :
        /\ \A j \in 1..Len(DataRows) : RLe(dist2(i, latlng), dist2(j, latlng))
        /\ \A j \in 1..(i - 1) : RLt(dist2(i, latlng), dist2(j, latlng))

\* lines 146-162: results.append({...}), the record of the month
cost_record(sb, month, latlng, derived, loss, days, total_loss, helideck_gain, pool_solar_gain, net_pool_heating, net_saving, electrical_saving, diesel_liters) ==
    [status |-> "ok", row |-> derived.row, T_avg |-> derived.T_avg,
     T_day |-> derived.T_day, T_night |-> derived.T_night,
     wind_day |-> derived.wind_day, wind_night |-> derived.wind_night,
     rh_day |-> derived.rh_day, rh_night |-> derived.rh_night, ghi |-> derived.ghi,
     loss |-> loss, total_loss |-> total_loss,
     helideck_gain |-> helideck_gain, pool_solar_gain |-> pool_solar_gain,
     net_pool_heating |-> net_pool_heating, net_saving |-> net_saving,
     record |->
        [Month |-> month,
         Lat |-> round(latlng[1], 2),
         Lon |-> round(latlng[2], 2),
         Daily_Loss |-> round(total_loss, 1),
         Daily_Solar_Gain |-> round(helideck_gain, 1),
         Daily_Net_Saving |-> round(net_saving, 1),
         Monthly_Loss |-> round(RMul(total_loss, days), 1),
         Monthly_Solar_Gain |-> round(RMul(helideck_gain, days), 1),
         Monthly_Net_Saving |-> round(RMul(net_saving, days), 1),
         Elec_Saving |-> round(electrical_saving, 1),
         Diesel_Saved |-> round(diesel_liters, 1),
         USD_Saved |-> round(RMul(diesel_liters, sb.usd_per_liter), 1),
         Evaporation |-> round(RAdd(loss.evap_day, loss.evap_night), 1),
         Radiation |-> round(RAdd(loss.rad_day, loss.rad_night), 1),
         Convection |-> round(RAdd(loss.conv_day, loss.conv_night), 1)]]

\* lines 132-144: the totals, the gains and the savings of the month
cost_savings(sb, month, latlng, derived, loss) ==
    LET Q_day == loss.Q_day
        Q_night == loss.Q_night
        total_loss == RAdd(Q_day, Q_night)
        days == Z(days_in_month[month])
        helideck_gain == RMul(RMul(derived.ghi, sb.helideck_area), sb.collector_efficiency)
        pool_solar_gain == RMul(RMul(derived.ghi, sb.pool_area), Q(7, 10))
        net_pool_heating == max(RSub(total_loss, pool_solar_gain), Z(0))
        net_saving == min(helideck_gain, net_pool_heating)
        electrical_saving == RDiv(RMul(net_saving, days), sb.cop)
        diesel_kg == RMul(electrical_saving, Q(2, 10))
        diesel_liters == RDiv(diesel_kg, Q(84, 100))
    IN  cost_record(sb, month, latlng, derived, loss, days, total_loss, helideck_gain,
                    pool_solar_gain, net_pool_heating, net_saving,
                    electrical_saving, diesel_liters)

\* lines 116-130: the row's data, the day and night conditions and the call of
\* compute_heat_losses
cost_row(data, sb, month, latlng, row) ==
    LET T_min == Cell(row, "tmin", month)
        T_max == Cell(row, "tmax", month)
        T_avg == row_get(data, row, "tavg", month, RDiv(RAdd(T_min, T_max), Z(2)))
        T_day == RDiv(RAdd(T_avg, T_max), Z(2))
        T_night == RDiv(RAdd(T_avg, T_min), Z(2))
        ghi == Cell(row, "ghi", month)
        wind == Cell(row, "ws10m", month)
        wind_day == RMul(wind, shielding_factor[sb.shielding])
        wind_night == RMul(RMul(Q(8, 10), wind), shielding_factor[sb.shielding])
        rh == Cell(row, "rh", month)
        rh_day == rh
        rh_night == RMul(Q(11, 10), rh)
    IN  cost_savings(sb, month, latlng,
            [row |-> row, T_avg |-> T_avg, T_day |-> T_day, T_night |-> T_night,
             wind_day |-> wind_day, wind_night |-> wind_night,
             rh_day |-> rh_day, rh_night |-> rh_night, ghi |-> ghi],
            compute_heat_losses(sb.pool_temp, sb.pool_area, pool_depth,
                                T_day, T_night, wind_day, wind_night,
                                rh_day, rh_night, Z(night_hours), sb.cover_used))

\* lines 110-114: the location of the month and the nearest row of the data
cost_month(data, sb, month, latlng) ==
    cost_row(data, sb, month, latlng, idxmin(latlng))

(***************************************************************************)
(* pages/2_📍_Cost_saving_evaluation.py: the yearly summary table.          *)
(***************************************************************************)
\* the points of the map the user clicks, (lat, lng), and how many of them
\* a session uses
ClickPoints ==
    << <<Q(123456, 10000), Q(451, 10)>>,
       <<Q(-674821, 10000), Q(-29337, 1000)>>,
       <<Q(57003, 1000), Q(2499, 1000)>> >>
NClicks == 2
Clicks == {ClickPoints[c] : c \in 1..NClicks}

\* The loop body is a function of the dataset, the sidebar, the month and the
\* month's location alone: its record for each of them, evaluated once.
monthly_record ==
    [data \in Datasets, sb \in Sidebars, i \in 1..Len(months_ordered), latlng \in Clicks |->
        cost_month(data, sb, months_ordered[i], latlng).record]

SummedColumns ==
    {"Monthly_Loss", "Monthly_Solar_Gain", "Monthly_Net_Saving",
     "Elec_Saving", "Diesel_Saved", "USD_Saved"}

\* df_result[[...]].sum(): the sum of one column over the monthly records
RECURSIVE column_sum(_, _, _)
column_sum(results, col, i) ==
    IF i > Len(results) THEN Z(0)
    ELSE RAdd(results[i][col], column_sum(results, col, i + 1))

\* a Total row that leaves January out of the sums
total_row_from_february(results) ==
    LET totals == [c \in SummedColumns |-> column_sum(results, c, 2)]
    IN  [Month |-> "Total", Lat |-> "-", Lon |-> "-",
         Daily_Loss |-> "-", Daily_Solar_Gain |-> "-", Daily_Net_Saving |-> "-",
         Monthly_Loss |-> round(totals["Monthly_Loss"], 1),
         Monthly_Solar_Gain |-> round(totals["Monthly_Solar_Gain"], 1),
         Monthly_Net_Saving |-> round(totals["Monthly_Net_Saving"], 1),
         Elec_Saving |-> round(totals["Elec_Saving"], 1),
         Diesel_Saved |-> round(totals["Diesel_Saved"], 1),
         USD_Saved |-> round(totals["USD_Saved"], 1),
         Evaporation |-> "-", Radiation |-> "-", Convection |-> "-"]

total_row(results) ==
    LET totals == [c \in SummedColumns |-> column_sum(results, c, 1)]
    IN  [Month |-> "Total", Lat |-> "-", Lon |-> "-",
         Daily_Loss |-> "-", Daily_Solar_Gain |-> "-", Daily_Net_Saving |-> "-",
         Monthly_Loss |-> round(totals["Monthly_Loss"], 1),
         Monthly_Solar_Gain |-> round(totals["Monthly_Solar_Gain"], 1),
         Monthly_Net_Saving |-> round(totals["Monthly_Net_Saving"], 1),
         Elec_Saving |-> round(totals["Elec_Saving"], 1),
         Diesel_Saved |-> round(totals["Diesel_Saved"], 1),
         USD_Saved |-> round(totals["USD_Saved"], 1),
         Evaporation |-> "-", Radiation |-> "-", Convection |-> "-"]

\* results, after "for month in months_ordered: ... results.append({...})"
RECURSIVE monthly_results(_, _, _, _)
monthly_results(data, sb, coords, n) ==
    IF n = 0 THEN <<>>
    ELSE Append(monthly_results(data, sb, coords, n - 1),
                monthly_record[data, sb, n, coords[short_of[months_ordered[n]]]])

\* the records of the first n months that have a location
RECURSIVE assigned_results(_, _, _, _)
assigned_results(data, sb, coords, n) ==
    IF n = 0 THEN <<>>
    ELSE IF short_of[months_ordered[n]] \in DOMAIN coords
        THEN Append(assigned_results(data, sb, coords, n - 1),
                    monthly_record[data, sb, n, coords[short_of[months_ordered[n]]]])
    ELSE assigned_results(data, sb, coords, n - 1)

\* a summary of whatever months have a location, without the guard
yearly_summary_unguarded(data, sb, coords) ==
    IF coords = <<>> THEN <<>>
    ELSE Append(assigned_results(data, sb, coords, Len(months_ordered)),
                total_row(assigned_results(data, sb, coords, Len(months_ordered))))

\* what the run shows under "Yearly Summary": the table of the 12 monthly
\* records and the Total row when every month has a location, else nothing
yearly_summary(data, sb, coords) ==
    IF Cardinality(DOMAIN coords) = 12
    THEN LET results == monthly_results(data, sb, coords, Len(months_ordered))
         IN  Append(results, total_row(results))
    ELSE <<>>

(***************************************************************************)
(* The session of the cost-saving page.  Streamlit runs the script from    *)
(* the top at every interaction; an action is one interaction with the     *)
(* run (or runs, after st.rerun()) it causes.                              *)
(***************************************************************************)
VARIABLES
    coords_by_month,   \* st.session_state.coords_by_month: short month -> (lat, lng)
    month_selection,   \* what the multiselect holds (full month names)
    sidebar,           \* what the sidebar widgets hold
    df,                \* the dataset load_data() returns
    df_result,         \* the summary table the last run showed, <<>> when none
    call,              \* function-level specifications: the call made
    ret                \* function-level specifications: what it returned

vars == <<coords_by_month, month_selection, sidebar, df, df_result, call, ret>>

NoCall == [fn |-> "none"]

\* the selections the user makes in the multiselect
SelectionChoices ==
    { {},
      {"January"},
      {"February"},
      {"January", "February", "March"},
      Months \ {"January", "February", "March"},
      Months \ {"January"},
      Months }

\* remaining_months[0], else the first label: the multiselect's default
default_selection(coords) ==
    LET remaining == {i \in 1..Len(months_ordered) :
                         short_of[months_ordered[i]] \notin DOMAIN coords}
    IN  IF remaining # {}
            THEN {months_ordered[CHOOSE i \in remaining : \A j \in remaining : i <= j]}
        ELSE {months_ordered[1]}

Init ==
    /\ coords_by_month = <<>>
    /\ month_selection = default_selection(<<>>)
    /\ sidebar = SidebarDefault
    /\ df \in Datasets
    /\ df_result = <<>>
    /\ call = NoCall
    /\ ret = NoCall

\* the user changes the multiselect; the run that follows sees no new click
SelectMonths ==
    \E sel \in SelectionChoices :
        /\ sel # month_selection
        /\ month_selection' = sel
        /\ df_result' = yearly_summary(df, sidebar, coords_by_month)
        /\ UNCHANGED <<coords_by_month, sidebar, df, call, ret>>

\* a loop that keeps the locations of the selected months alone
assign_selected_only(coords, selected_months, latlng) ==
    [k \in {short_of[m] : m \in selected_months} |-> latlng]

\* coords_by_month after the loop "for m in selected_months: ... = latlng"
assign(coords, selected_months, latlng) ==
    [k \in DOMAIN coords \cup {short_of[m] : m \in selected_months} |->
        IF \E m \in selected_months : short_of[m] = k THEN latlng ELSE coords[k]]

\* the user clicks the map: with months selected the click is stored for each
\* of them and the script is run again, else the run goes on to the summary
MapClick ==
    \E latlng \in Clicks :
        /\ coords_by_month' =
              IF month_selection # {}
                  THEN assign(coords_by_month, month_selection, latlng)
              ELSE coords_by_month
        /\ df_result' = yearly_summary(df, sidebar, coords_by_month')
        /\ UNCHANGED <<month_selection, sidebar, df, call, ret>>

\* the user moves a slider, ticks the checkbox or picks another shielding
ChangeSidebar ==
    \E sb \in Sidebars :
        /\ sb # sidebar
        /\ sidebar' = sb
        /\ df_result' = yearly_summary(df, sb, coords_by_month)
        /\ UNCHANGED <<coords_by_month, month_selection, df, call, ret>>

Next == SelectMonths \/ MapClick \/ ChangeSidebar

Spec == Init /\ [][Next]_vars

(***************************************************************************)
(* Function-level specifications.  A behaviour is one call of a function   *)
(* of the program: call holds the function and its arguments, ret what the *)
(* call returned.  The session variables stay as a fresh session leaves    *)
(* them.                                                                   *)
(***************************************************************************)
FreshSession ==
    /\ coords_by_month = <<>>
    /\ month_selection = default_selection(<<>>)
    /\ sidebar = SidebarDefault
    /\ df = [has_tavg |-> TRUE]
    /\ df_result = <<>>

InitCalls == FreshSession /\ call = NoCall /\ ret = NoCall

session_vars == <<coords_by_month, month_selection, sidebar, df, df_result>>

(***************************************************************************)
(* saturation_pressure(temp_c) on temperatures in half degrees, from below *)
(* the table, through it, to above it.                                     *)
(***************************************************************************)
SatLowest == 100       \* the lowest temperature is -SatLowest / 2 degrees C
SatHighest == 190      \* the highest temperature is SatHighest / 2 degrees C
SatInputs == {Q(k, 2) : k \in (-SatLowest)..SatHighest}

CallSaturation ==
    \E temp_c \in SatInputs :
        /\ call = NoCall
        /\ call' = [fn |-> "saturation_pressure", temp_c |-> temp_c]
        /\ ret' = saturation_pressure(temp_c)
        /\ UNCHANGED session_vars

SpecSat == InitCalls /\ [][CallSaturation]_vars

IsSatCall == call.fn = "saturation_pressure"

\* the table positions
Anchors == 1..Len(temps_c)
Segments == 1..(Len(temps_c) - 1)

\* p lies on the straight line through the table points k and k + 1 at t:
\* p * (x[k+1] - x[k]) = y[k] * (x[k+1] - t) + y[k+1] * (t - x[k])
OnSegmentLine(k, t, p) ==
    REq(RMul(p, RSub(TableX(k + 1), TableX(k))),
        RAdd(RMul(TableY(k), RSub(TableX(k + 1), t)),
             RMul(TableY(k + 1), RSub(t, TableX(k)))))

\* C8: saturation_pressure returns the table pressure at each of the 25 anchor
\* temperatures, for a temperature between two neighbouring anchors the point
\* of the straight line through them, and below -40 C (above 85 C) the point
\* of the line through the first (last) two anchors continued, which is below
\* the first (above the last) table pressure: it never clamps to the boundary
\* value, and every call returns a number.
ThmC8 ==
    IsSatCall =>
        /\ ret \in [sg : {-1, 0, 1}, num : Seq(Nat), den : Seq(Nat)]
        /\ \A k \in Anchors : REq(call.temp_c, TableX(k)) => REq(ret, TableY(k))
        /\ \A k \in Segments :
              (RLt(TableX(k), call.temp_c) /\ RLt(call.temp_c, TableX(k + 1)))
                  => OnSegmentLine(k, call.temp_c, ret)
        /\ RLt(call.temp_c, TableX(1)) =>
              (OnSegmentLine(1, call.temp_c, ret) /\ RLt(ret, TableY(1)))
        /\ RLt(TableX(Len(temps_c)), call.temp_c) =>
              (OnSegmentLine(Len(temps_c) - 1, call.temp_c, ret)
               /\ RLt(TableY(Len(temps_c)), ret))

\* a call below the table that returned less than the first table pressure
WitC8 == IsSatCall /\ RLt(call.temp_c, TableX(1)) /\ RLt(ret, TableY(1))

(***************************************************************************)
(* compute_heat_losses on scalars: pools at 20 and 28 C under air that is  *)
(* colder than the pool, as warm, 5 C warmer (a sky as warm as the pool)   *)
(* and warmer still, in calm and in wind, in dry, saturated and            *)
(* supersaturated air, with no night, half a day of night and no day.      *)
(***************************************************************************)
PoolTemps == {Z(20), Z(28)}
AirTemps ==     \* <<T_day, T_night>>
    {<<Z(28), Z(28)>>, <<Z(33), Z(33)>>, <<Z(35), Z(28)>>, <<Z(20), Z(15)>>,
     <<Z(25), Z(20)>>, <<Z(25), Z(35)>>, <<Z(30), Z(22)>>}
Winds ==        \* <<wind_day, wind_night>>
    {<<Z(0), Z(0)>>, <<Q(35, 10), Q(35, 10)>>, <<Q(35, 10), Q(28, 10)>>}
Humidities ==   \* <<rh_day, rh_night>>
    {<<Z(50), Z(50)>>, <<Z(100), Z(100)>>, <<Z(110), Z(110)>>, <<Z(100), Z(110)>>}
NightHours == {Z(0), Z(12), Z(24)}

LossInputs ==
    {[pool_temp |-> pt, pool_area |-> Z(50), pool_depth |-> pool_depth,
      T_day |-> t[1], T_night |-> t[2], wind_day |-> w[1], wind_night |-> w[2],
      rh_day |-> h[1], rh_night |-> h[2], night_hours |-> nh, cover_used |-> c] :
        pt \in PoolTemps, t \in AirTemps, w \in Winds, h \in Humidities,
        nh \in NightHours, c \in BOOLEAN}

\* compute_heat_losses(**args)
LossOf(args) ==
    compute_heat_losses(args.pool_temp, args.pool_area, args.pool_depth,
                        args.T_day, args.T_night, args.wind_day, args.wind_night,
                        args.rh_day, args.rh_night, args.night_hours, args.cover_used)

CallLoss ==
    \E args \in LossInputs :
        /\ call = NoCall
        /\ call' = [fn |-> "compute_heat_losses", args |-> args]
        /\ ret' = LossOf(args)
        /\ UNCHANGED session_vars

SpecLoss == InitCalls /\ [][CallLoss]_vars

IsLossCall == call.fn = "compute_heat_losses"
IsCoverCall == IsLossCall /\ call.args.cover_used

\* what the same call returns without the cover
Uncovered == LossOf([call.args EXCEPT !.cover_used = FALSE])

UncoveredFields ==
    {"conv_night", "evap_day", "rad_day", "conv_day", "Q_day", "hours_day", "pool_volume"}

\* C3: with the cover, evap_night and rad_night are 0.3 times what the same
\* call returns without the cover, and conv_night, evap_day, rad_day, conv_day,
\* Q_day, hours_day and pool_volume are what it returns without the cover.
ThmC3 ==
    IsCoverCall =>
        \A u \in {Uncovered} :
            /\ REq(ret.evap_night, RMul(Q(3, 10), u.evap_night))
            /\ REq(ret.rad_night, RMul(Q(3, 10), u.rad_night))
            /\ \A f \in UncoveredFields : REq(ret[f], u[f])

\* a covered call with night evaporation and night radiation
WitC3 == IsCoverCall /\ ret.evap_night.sg # 0 /\ ret.rad_night.sg # 0

\* with the cover x, without it u: x is below u, or both are zero
ReducedOrZero(x, u) == RLe(x, u) /\ (REq(x, u) => u.sg = 0)

\* C4 as claimed: for all inputs the cover gives evap_night and rad_night at or
\* below the values without the cover, and equal to them only at zero.
CexC4 ==
    IsCoverCall =>
        \A u \in {Uncovered} :
            /\ ReducedOrZero(ret.evap_night, u.evap_night)
            /\ ReducedOrZero(ret.rad_night, u.rad_night)

\* x is nearer to zero than u on u's side of zero, or both are zero
TowardsZero(x, u) ==
    /\ u.sg >= 0 => RLe(x, u)
    /\ u.sg <= 0 => RLe(u, x)
    /\ x.sg = u.sg
    /\ REq(x, u) => u.sg = 0

\* C4: the cover strictly reduces a positive night evaporation or radiation
\* energy, leaves a zero one at zero, and brings a negative one (a net gain of
\* heat) strictly nearer to zero, so that it is above the value without the
\* cover: evap_night(cover) <= evap_night(no cover) and rad_night(cover) <=
\* rad_night(no cover) hold whenever the value without the cover is not
\* negative, with equality only at zero.
ThmC4 ==
    IsCoverCall =>
        \A u \in {Uncovered} :
            /\ TowardsZero(ret.evap_night, u.evap_night)
            /\ TowardsZero(ret.rad_night, u.rad_night)

\* a covered call whose night evaporation and night radiation are gains
WitC4 == IsCoverCall /\ ret.evap_night.sg = -1 /\ ret.rad_night.sg = -1

Sum3(a, b, c) == RAdd(RAdd(a, b), c)

\* C5: Q_day is the sum of evap_day, rad_day and conv_day, Q_night the sum of
\* evap_night, rad_night and conv_night as returned (after the cover factor:
\* 0.3 of the uncovered night evaporation and radiation under the cover), and
\* Q_day + Q_night the sum of the six, for night_hours 0, 12 and 24 and either
\* cover setting.
ThmC5 ==
    IsLossCall =>
        /\ REq(ret.Q_day, Sum3(ret.evap_day, ret.rad_day, ret.conv_day))
        /\ REq(ret.Q_night, Sum3(ret.evap_night, ret.rad_night, ret.conv_night))
        /\ REq(RAdd(ret.Q_day, ret.Q_night),
               RAdd(Sum3(ret.evap_day, ret.rad_day, ret.conv_day),
                    Sum3(ret.evap_night, ret.rad_night, ret.conv_night)))
        /\ call.args.cover_used =>
              \A u \in {Uncovered} :
                  REq(ret.Q_night, Sum3(RMul(Q(3, 10), u.evap_night),
                                        RMul(Q(3, 10), u.rad_night), u.conv_night))

\* a covered call with a night of 24 hours and a night loss
WitC5 ==
    /\ IsCoverCall
    /\ REq(call.args.night_hours, Z(24))
    /\ ret.Q_night.sg # 0
    /\ ret.evap_night.sg # 0

\* humidity and wind are the same by day and by night
SameDayNight ==
    REq(call.args.rh_day, call.args.rh_night) /\ REq(call.args.wind_day, call.args.wind_night)

PoolAtDayAir == REq(call.args.pool_temp, call.args.T_day)
PoolAtNightAir == REq(call.args.pool_temp, call.args.T_night)

\* C6 as claimed: with the pool at the period's air temperature and the same
\* humidity and wind by day and by night, the period's evaporation loss and
\* convection loss are both zero.
CexC6 ==
    (IsLossCall /\ SameDayNight) =>
        /\ PoolAtDayAir => (ret.evap_day.sg = 0 /\ ret.conv_day.sg = 0)
        /\ PoolAtNightAir => (ret.evap_night.sg = 0 /\ ret.conv_night.sg = 0)

\* the sign of an evaporation loss of a period of some hours with the pool at
\* the air temperature: that of 100 - rh
EvapSignAtAir(evap, rh, hours) ==
    IF hours.sg = 0 THEN evap.sg = 0 ELSE evap.sg = RCmp(Z(100), rh)

\* C6: with the pool at the period's air temperature and the same humidity
\* and wind by day and by night, the period's convection loss is zero for
\* every humidity and wind; its evaporation loss is zero at 100 % relative
\* humidity (and in a period of no hours), positive below 100 % and negative
\* above.
ThmC6 ==
    (IsLossCall /\ SameDayNight) =>
        /\ PoolAtDayAir =>
              /\ ret.conv_day.sg = 0
              /\ EvapSignAtAir(ret.evap_day, call.args.rh_day, ret.hours_day)
        /\ PoolAtNightAir =>
              /\ ret.conv_night.sg = 0
              /\ EvapSignAtAir(ret.evap_night, call.args.rh_night, call.args.night_hours)

\* a call with the pool at the day's air temperature, in wind and dry air the
\* same by day and by night, that lost heat by evaporation and none by
\* convection during the day
WitC6 ==
    /\ IsLossCall /\ SameDayNight /\ PoolAtDayAir
    /\ call.args.wind_day.sg = 1
    /\ RLt(call.args.rh_day, Z(100))
    /\ ret.evap_day.sg = 1
    /\ ret.conv_day.sg = 0

\* the sign of a period's radiation loss over some hours: that of
\* pool_temp - (T - 5)
RadSign(rad, T, hours) ==
    hours.sg = 1 => rad.sg = RCmp(call.args.pool_temp, RSub(T, Z(5)))

\* C7: in a period of positive hours (the pool area is positive) the radiation
\* loss is zero when pool_temp is the sky temperature, the period's air
\* temperature minus 5 C, positive when pool_temp is above it and negative
\* when it is below, with and without the cover.
ThmC7 ==
    IsLossCall =>
        /\ call.args.pool_area.sg = 1
        /\ RadSign(ret.rad_day, call.args.T_day, ret.hours_day)
        /\ RadSign(ret.rad_night, call.args.T_night, call.args.night_hours)

\* a covered call with a night under a sky as warm as the pool, and no night
\* radiation loss
WitC7 ==
    /\ IsCoverCall
    /\ call.args.night_hours.sg = 1
    /\ REq(call.args.pool_temp, RSub(call.args.T_night, Z(5)))
    /\ ret.rad_night.sg = 0

(***************************************************************************)
(* The session of the cost-saving page: the yearly summary.                *)
(***************************************************************************)
AssignedMonths == Cardinality(DOMAIN coords_by_month)

\* C1: in every state in which fewer than 12 months have a location the run
\* has produced no monthly record and no Total row; what is produced is
\* produced with all 12 months assigned: the 12 monthly records in calendar
\* order and the Total row after them.
ThmC1 ==
    /\ AssignedMonths < 12 => df_result = <<>>
    /\ df_result # <<>> =>
          /\ DOMAIN coords_by_month = short_months
          /\ Len(df_result) = 13
          /\ \A i \in 1..12 : df_result[i].Month = months_ordered[i]
          /\ df_result[13].Month = "Total"

\* eleven months assigned by clicks, and nothing produced
WitC1 == AssignedMonths = 11 /\ df_result = <<>>

(***************************************************************************)
(* Runs of the pages: one run of a page's script for a month, on a dataset *)
(* with or without the tavg columns, under each of the sidebar settings.  *)
(***************************************************************************)
RunMainPage ==
    \E data \in Datasets, sb \in PageSidebars, month \in Months :
        /\ call = NoCall
        /\ call' = [fn |-> "main_page", data |-> data, sb |-> sb, month |-> month]
        /\ ret' = main_page(data, sb, month)
        /\ UNCHANGED session_vars

RunComponentsPage ==
    \E data \in Datasets, sb \in PageSidebars, month \in Months :
        /\ call = NoCall
        /\ call' = [fn |-> "components_page", data |-> data, sb |-> sb, month |-> month]
        /\ ret' = components_page(data, sb, month)
        /\ UNCHANGED session_vars

RunCostMonth ==
    \E data \in Datasets, sb \in PageSidebars, month \in Months, latlng \in Clicks :
        /\ call = NoCall
        /\ call' = [fn |-> "cost_month", data |-> data, sb |-> sb, month |-> month,
                    latlng |-> latlng]
        /\ ret' = cost_month(data, sb, month, latlng)
        /\ UNCHANGED session_vars

PagesNext == RunMainPage \/ RunComponentsPage \/ RunCostMonth

SpecPages == InitCalls /\ [][PagesNext]_vars

IsMainRun == call.fn = "main_page"
IsComponentsRun == call.fn = "components_page"
IsCostRun == call.fn = "cost_month"
IsPageRun == IsMainRun \/ IsComponentsRun \/ IsCostRun
Rows == 1..Len(DataRows)

\* element i of an array, a scalar as it is
Elem(v, i) == IF "arr" \in DOMAIN v THEN v.arr[i] ELSE v

\* the savings of one point, from its irradiation and its total loss
SavingsOf(sb, ghi, total_loss, helideck_gain, pool_solar_gain, net_pool_heating, net_saving) ==
    /\ REq(pool_solar_gain, RMul(RMul(ghi, sb.pool_area), Q(7, 10)))
    /\ REq(helideck_gain, RMul(RMul(ghi, sb.helideck_area), sb.collector_efficiency))
    /\ REq(net_pool_heating,
           IF RLt(pool_solar_gain, total_loss) THEN RSub(total_loss, pool_solar_gain)
           ELSE Z(0))
    /\ REq(net_saving,
           IF RLt(helideck_gain, net_pool_heating) THEN helideck_gain
           ELSE net_pool_heating)
    /\ net_pool_heating.sg >= 0
    /\ RLe(net_saving, helideck_gain)
    /\ RLe(net_saving, net_pool_heating)
    /\ RLe(net_pool_heating, helideck_gain) => REq(net_saving, net_pool_heating)

SavingsAt(i) ==
    SavingsOf(call.sb, Elem(ret.ghi, i), Elem(ret.total_loss, i),
              Elem(ret.helideck_gain, i), Elem(ret.pool_solar_gain, i),
              Elem(ret.net_pool_heating, i), Elem(ret.net_saving, i))

\* C2: in every month's record of the cost-saving page, and at every point of
\* the main page's grid, pool_solar_gain = GHI * pool_area * 0.7, helideck_gain
\* = GHI * helideck_area * collector_efficiency, net_pool_heating = max(
\* total_loss - pool_solar_gain, 0) and net_saving = min(helideck_gain,
\* net_pool_heating): net_pool_heating is never negative, net_saving exceeds
\* neither helideck_gain nor net_pool_heating, and is net_pool_heating
\* whenever helideck_gain >= net_pool_heating.
ThmC2 ==
    /\ IsCostRun =>
          /\ REq(ret.total_loss, RAdd(ret.loss.Q_day, ret.loss.Q_night))
          /\ SavingsAt(1)
    /\ (IsMainRun /\ ret.status = "ok") => \A i \in Rows : SavingsAt(i)

\* a month of the cost-saving page in which the collector yields something
\* and less than the pool needs
WitC2 ==
    /\ IsCostRun
    /\ ret.helideck_gain.sg = 1
    /\ RLt(ret.helideck_gain, ret.net_pool_heating)
    /\ REq(ret.net_saving, ret.helideck_gain)

Half(a, b) == RDiv(RAdd(a, b), Z(2))

\* the temperatures of point i in a run without the tavg column
FallbackAt(i, row) ==
    /\ REq(Elem(ret.T_avg, i),
           Half(Cell(row, "tmin", call.month), Cell(row, "tmax", call.month)))
    /\ REq(Elem(ret.T_day, i), Half(Elem(ret.T_avg, i), Cell(row, "tmax", call.month)))
    /\ REq(Elem(ret.T_night, i), Half(Elem(ret.T_avg, i), Cell(row, "tmin", call.month)))

\* C9 as claimed: a run of any of the three pages on a dataset without the
\* tavg_<Month> column goes on without an error, with T_avg = (T_min +
\* T_max) / 2, T_day = (T_avg + T_max) / 2 and T_night = (T_avg + T_min) / 2,
\* and reaches its heat loss computation.
CexC9 ==
    (IsPageRun /\ ~call.data.has_tavg) =>
        /\ ret.status = "ok"
        /\ "loss" \in DOMAIN ret
        /\ IF IsCostRun THEN FallbackAt(1, ret.row)
           ELSE \A i \in Rows : FallbackAt(i, i)

\* the i-th point's inputs of a run over the grid, as a scalar call
PointLoss(i) ==
    compute_heat_losses(call.sb.pool_temp, call.sb.pool_area, pool_depth,
                        Elem(ret.T_day, i), Elem(ret.T_night, i),
                        Elem(ret.wind_day, i), Elem(ret.wind_night, i),
                        Elem(ret.rh_day, i), Elem(ret.rh_night, i),
                        Z(night_hours), call.sb.cover_used)

\* the cost-saving page's savings of the i-th point, on the loss u
PointSavings(i, u) ==
    cost_savings(call.sb, call.month, <<Lat(i), Lon(i)>>,
                 [row |-> i, T_avg |-> Elem(ret.T_avg, i),
                  T_day |-> Elem(ret.T_day, i), T_night |-> Elem(ret.T_night, i),
                  wind_day |-> Elem(ret.wind_day, i), wind_night |-> Elem(ret.wind_night, i),
                  rh_day |-> Elem(ret.rh_day, i), rh_night |-> Elem(ret.rh_night, i),
                  ghi |-> Elem(ret.ghi, i)],
                 u)

LossFields ==
    {"Q_day", "Q_night", "evap_day", "evap_night", "rad_day", "rad_night",
     "conv_day", "conv_night", "seconds_per_hour", "hours_day", "pool_volume"}

IsGridRun == (IsMainRun \/ IsComponentsRun) /\ ret.status = "ok"

\* C10: the call of compute_heat_losses on the arrays of the grid (scalar pool
\* parameters, night_hours and cover flag) returns at every index and in
\* every field what the scalar call on that point's inputs returns, and the
\* main page's net_pool_heating and net_saving (np.clip, np.minimum) are at
\* every index what the cost-saving page's computation (max, min) gives for
\* that point.
ThmC10 ==
    IsGridRun =>
        \A i \in Rows : \A u \in {PointLoss(i)} :
            /\ \A f \in LossFields : REq(Elem(ret.loss[f], i), u[f])
            /\ IsMainRun =>
                  \A p \in {PointSavings(i, u)} :
                      /\ REq(Elem(ret.total_loss, i), p.total_loss)
                      /\ REq(Elem(ret.net_pool_heating, i), p.net_pool_heating)
                      /\ REq(Elem(ret.net_saving, i), p.net_saving)

\* a run of the main page over the grid whose points differ in their loss and
\* in their saving
WitC10 ==
    /\ IsMainRun /\ ret.status = "ok"
    /\ "arr" \in DOMAIN ret.loss.Q_night
    /\ ~REq(ret.loss.Q_night.arr[1], ret.loss.Q_night.arr[2])
    /\ ~REq(ret.net_saving.arr[2], ret.net_saving.arr[3])

(***************************************************************************)
(* The period inputs the pages pass to compute_heat_losses.                *)
(***************************************************************************)
\* the rows of the data a run works on: the nearest row in a run of the
\* cost-saving page's loop body, every row in a run over the grid
RunRows == IF IsCostRun THEN {ret.row} ELSE Rows

\* the monthly average temperature of a row: the tavg column where the data
\* has one, else the midpoint of the minimum and the maximum
MonthlyTavg(row) ==
    IF call.data.has_tavg THEN Cell(row, "tavg", call.month)
    ELSE Half(Cell(row, "tmin", call.month), Cell(row, "tmax", call.month))

ShieldingValues == {Q(70, 100), Q(40, 100), Q(15, 100), Q(5, 100)}

\* the period inputs of a row by the formulas, for the shielding factor sf
PeriodInputs(row, sf) ==
    [T_day |-> Half(MonthlyTavg(row), Cell(row, "tmax", call.month)),
     T_night |-> Half(MonthlyTavg(row), Cell(row, "tmin", call.month)),
     wind_day |-> RMul(Cell(row, "ws10m", call.month), sf),
     wind_night |-> RMul(RMul(Q(8, 10), Cell(row, "ws10m", call.month)), sf),
     rh_day |-> Cell(row, "rh", call.month),
     rh_night |-> RMul(Q(11, 10), Cell(row, "rh", call.month))]

\* the call of compute_heat_losses on the inputs p of one point
LossOn(p) ==
    compute_heat_losses(call.sb.pool_temp, call.sb.pool_area, pool_depth,
                        p.T_day, p.T_night, p.wind_day, p.wind_night,
                        p.rh_day, p.rh_night, Z(night_hours), call.sb.cover_used)

\* C11: in every run of the main page, the heat-loss-components page and the
\* cost-saving page's loop body that reaches compute_heat_losses, the period
\* inputs of every point are T_day = (T_avg + T_max) / 2, T_night = (T_avg +
\* T_min) / 2, wind_day = wind * shielding_factor, wind_night = 0.8 * wind *
\* shielding_factor, rh_day = rh and rh_night = 1.1 * rh, with shielding_factor
\* one of 0.70, 0.40, 0.15, 0.05; the loss the run holds is the loss of these
\* inputs, and where the monthly rh is above 100 / 1.1 the night humidity
\* passed is above 100.
ThmC11 ==
    (IsPageRun /\ ret.status = "ok") =>
        /\ \E sf \in ShieldingValues : REq(sf, shielding_factor[call.sb.shielding])
        /\ \A row \in RunRows :
              \A p \in {PeriodInputs(row, shielding_factor[call.sb.shielding])} :
                  /\ \A f \in DOMAIN p : REq(Elem(ret[f], row), p[f])
                  /\ \A u \in {LossOn(p)} :
                        \A f \in LossFields : REq(Elem(ret.loss[f], row), u[f])
                  /\ RLt(RDiv(Z(100), Q(11, 10)), Cell(row, "rh", call.month))
                        => RLt(Z(100), Elem(ret.rh_night, row))

\* a run of the main page behind the highest shielding at a point in wind
\* whose monthly humidity is above 100 / 1.1: the night humidity passed is
\* above 100 and the night wind is below the day wind
WitC11 ==
    /\ IsMainRun /\ ret.status = "ok"
    /\ call.sb.shielding = "highly"
    /\ RLt(RDiv(Z(100), Q(11, 10)), Cell(1, "rh", call.month))
    /\ RLt(Z(100), Elem(ret.rh_night, 1))
    /\ RLt(Elem(ret.wind_night, 1), Elem(ret.wind_day, 1))

(***************************************************************************)
(* The yearly summary table: the monthly records and the Total row.        *)
(***************************************************************************)
\* the sum of column col over the records 1..n of the table
RECURSIVE SumOver(_, _)
SumOver(col, n) ==
    IF n = 0 THEN Z(0) ELSE RAdd(SumOver(col, n - 1), df_result[n][col])

MarkerColumns ==
    {"Lat", "Lon", "Daily_Loss", "Daily_Solar_Gain", "Daily_Net_Saving",
     "Evaporation", "Radiation", "Convection"}

\* C12: a yearly summary that is produced has one record per calendar month,
\* January to December in this order, and after them one Total row; each of
\* the Total row's Monthly Loss, Monthly Solar Gain, Monthly Net Saving, Elec.
\* Saving, Diesel Saved and USD Saved is the sum of the column over the 12
\* monthly records, and its location, per-day and per-component fields hold
\* the marker "-", where the monthly records hold numbers.
ThmC12 ==
    df_result # <<>> =>
        /\ Len(df_result) = Len(months_ordered) + 1
        /\ \A i \in 1..Len(months_ordered) :
              /\ df_result[i].Month = months_ordered[i]
              /\ \A c \in MarkerColumns : df_result[i][c].sg \in {-1, 0, 1}
        /\ df_result[13].Month = "Total"
        /\ \A c \in SummedColumns : REq(df_result[13][c], SumOver(c, 12))
        /\ \A c \in MarkerColumns : df_result[13][c] = "-"
        /\ DOMAIN df_result[13] = {"Month"} \cup SummedColumns \cup MarkerColumns

\* a summary of a year spent at two locations, with a loss in January and a
\* saving over the year
WitC12 ==
    /\ Len(df_result) = 13
    /\ \E i, j \in 1..12 : ~REq(df_result[i].Lat, df_result[j].Lat)
    /\ df_result[1].Monthly_Loss.sg = 1
    /\ RLt(df_result[1].Monthly_Loss, df_result[13].Monthly_Loss)
    /\ df_result[13].USD_Saved.sg = 1

(***************************************************************************)
(* The session of the cost-saving page: the locations of the months.       *)
(***************************************************************************)
SelectedKeys == {short_of[m] : m \in month_selection}

\* what a click at latlng does to coords_by_month with months selected
ClickEffect(latlng) ==
    /\ DOMAIN coords_by_month' = DOMAIN coords_by_month \cup SelectedKeys
    /\ \A k \in SelectedKeys : coords_by_month'[k] = latlng
    /\ \A k \in DOMAIN coords_by_month \ SelectedKeys :
          coords_by_month'[k] = coords_by_month[k]

\* one interaction with the page, whatever it is
StepC13 ==
    /\ (MapClick /\ month_selection # {}) => \E latlng \in Clicks : ClickEffect(latlng)
    /\ DOMAIN coords_by_month \subseteq DOMAIN coords_by_month'
    /\ AssignedMonths <= AssignedMonths'
    /\ AssignedMonths = 12 => (AssignedMonths' = 12 /\ df_result' # <<>>)

KeysC13 ==
    /\ DOMAIN coords_by_month \subseteq short_months
    /\ AssignedMonths <= 12
    /\ AssignedMonths = 12 => df_result # <<>>

\* C13: a map click with months selected sets the clicked location for every
\* selected month, overwriting an earlier one, and leaves the location of
\* every other month as it was; no operation removes a month from
\* coords_by_month, whose keys are always among the 12 three-letter month
\* keys: the set of assigned months only grows and never exceeds 12, and once
\* all 12 are assigned the yearly summary is there after every later
\* operation.
ThmC13 == [] KeysC13 /\ [][StepC13]_vars

\* all 12 months assigned, January at another location than February and
\* alone selected, and the summary shown
WitC13 ==
    /\ AssignedMonths = 12
    /\ month_selection = {"January"}
    /\ coords_by_month["jan"] # coords_by_month["feb"]
    /\ df_result # <<>>
=============================================================================
